---------------------------- MODULE Spec2Model ----------------------------
(***************************************************************************)
(* Rent-vs-buy projection engine of src/app/page.tsx (the useMemo body of  *)
(* Home, lines 75-257) as a state machine.                                 *)
(*                                                                         *)
(* Numbers.  The engine computes in JavaScript numbers (IEEE-754 doubles). *)
(* A number is modelled as a fixed-point integer counting 1/Scale units,   *)
(* or one of the special values NaN, PInf (+Infinity), NInf (-Infinity).   *)
(* Every arithmetic operator rounds its exact result to the nearest        *)
(* representable value, as a double operation does; the resolution is      *)
(* 1/Scale instead of 2^-52 relative.  A finite result whose magnitude     *)
(* exceeds FinMax is outside the range the model represents and becomes    *)
(* Ovf; the invariant RangeOK states that no reachable state holds Ovf, so *)
(* every modelled run stays inside the represented range.  The sign of     *)
(* zero is not modelled: no divisor of the engine can be -0.               *)
(***************************************************************************)
EXTENDS Integers, Sequences, FiniteSets, TLC

\* Fixed-point resolution: the raw integer v stands for the number v/Scale.
Scale == 10000
\* Largest magnitude (raw) of a finite modelled number: 20000 units.
FinMax == 200000000
\* The JavaScript values NaN, +Infinity and -Infinity, outside the finite range.
PInf == 1500000000
NInf == -1500000000
NaN == 2000000000
\* A finite result outside the modelled range (never reached, see RangeOK).
Ovf == 1900000000

IsFin(x) == x >= -FinMax /\ x <= FinMax
IsInf(x) == x = PInf \/ x = NInf
Abs(x) == IF x < 0 THEN -x ELSE x
Sgn(x) == IF x > 0 THEN 1 ELSE IF x < 0 THEN -1 ELSE 0
Norm(x) == IF x > FinMax \/ x < -FinMax THEN Ovf ELSE x
\* n whole units as a number.
Num(n) == n * Scale

\* a / b for naturals a and b > 0, rounded to the nearest integer.
RoundDiv(a, b) == (a + b \div 2) \div b

\* ---- comparison operators: every comparison with NaN is false ----
FLt(a, b) == a # NaN /\ b # NaN /\ a < b
FGt(a, b) == FLt(b, a)
FLe(a, b) == a # NaN /\ b # NaN /\ a <= b
FGe(a, b) == FLe(b, a)
\* a === b
FEq(a, b) == a # NaN /\ b # NaN /\ a = b

\* ---- unary minus ----
FNeg(a) ==
  CASE a = Ovf -> Ovf
    [] a = NaN -> NaN
    [] a = PInf -> NInf
    [] a = NInf -> PInf
    [] OTHER -> -a

\* ---- a + b ----
FAdd(a, b) ==
  CASE a = Ovf \/ b = Ovf -> Ovf
    [] a = NaN \/ b = NaN -> NaN
    [] IsInf(a) /\ IsInf(b) -> IF a = b THEN a ELSE NaN
    [] IsInf(a) -> a
    [] IsInf(b) -> b
    [] OTHER -> Norm(a + b)

\* ---- a - b ----
FSub(a, b) == FAdd(a, FNeg(b))

\* |a| * |b| / Scale for finite raw a, b, rounded to nearest, computed in
\* halves so that no intermediate product leaves the machine integers.
MulRaw(a, b) ==
  LET A == Abs(a)
      B == Abs(b)
      ah == A \div Scale
      al == A % Scale
      bh == B \div Scale
      bl == B % Scale
  IN  IF ah > 0 /\ bh > (FinMax \div Scale) \div ah
      THEN Ovf
      ELSE Norm(ah * bh * Scale + ah * bl + al * bh + RoundDiv(al * bl, Scale))

\* ---- a * b ----
FMul(a, b) ==
  CASE a = Ovf \/ b = Ovf -> Ovf
    [] a = NaN \/ b = NaN -> NaN
    [] IsInf(a) \/ IsInf(b) ->
         IF a = 0 \/ b = 0 THEN NaN
         ELSE IF Sgn(a) * Sgn(b) > 0 THEN PInf ELSE NInf
    [] OTHER ->
         LET m == MulRaw(a, b)
         IN  IF m = Ovf THEN Ovf ELSE Sgn(a) * Sgn(b) * m

\* One decimal digit of a long division: <<quotient digit, remainder>>.
DivDigit(rem, B) == <<(rem * 10) \div B, (rem * 10) % B>>

\* |a| * Scale / |b| for finite raw a and b # 0, rounded to nearest, by long
\* division (Scale = 10^4: four digits after the integer quotient).
DivRaw(a, b) ==
  LET A == Abs(a)
      B == Abs(b)
      q0 == A \div B
      d1 == DivDigit(A % B, B)
      d2 == DivDigit(d1[2], B)
      d3 == DivDigit(d2[2], B)
      d4 == DivDigit(d3[2], B)
      up == IF 2 * d4[2] >= B THEN 1 ELSE 0
  IN  IF q0 > FinMax \div Scale
      THEN Ovf
      ELSE Norm(q0 * Scale + d1[1] * 1000 + d2[1] * 100 + d3[1] * 10 + d4[1] + up)

\* ---- a / b ----
FDiv(a, b) ==
  CASE a = Ovf \/ b = Ovf -> Ovf
    [] a = NaN \/ b = NaN -> NaN
    [] IsInf(a) /\ IsInf(b) -> NaN
    [] IsInf(a) -> IF Sgn(a) * (IF b < 0 THEN -1 ELSE 1) > 0 THEN PInf ELSE NInf
    [] IsInf(b) -> 0
    [] b = 0 -> IF a = 0 THEN NaN ELSE IF a > 0 THEN PInf ELSE NInf
    [] OTHER ->
         LET d == DivRaw(a, b)
         IN  IF d = Ovf THEN Ovf ELSE Sgn(a) * Sgn(b) * d

\* ---- Math.max(a, b), Math.min(a, b): NaN if either argument is NaN ----
MathMax(a, b) ==
  CASE a = Ovf \/ b = Ovf -> Ovf
    [] a = NaN \/ b = NaN -> NaN
    [] OTHER -> IF a >= b THEN a ELSE b

MathMin(a, b) ==
  CASE a = Ovf \/ b = Ovf -> Ovf
    [] a = NaN \/ b = NaN -> NaN
    [] OTHER -> IF a <= b THEN a ELSE b

\* ---- Math.floor(a) ----
MathFloor(a) == IF IsFin(a) THEN (a \div Scale) * Scale ELSE a

\* ---- Math.round(a): the nearest whole number, halves towards +Infinity ----
MathRound(a) == IF IsFin(a) THEN ((a + Scale \div 2) \div Scale) * Scale ELSE a

\* ---- Number(x) || d: NaN and 0 are falsy, +-Infinity is not ----
OrElse(x, d) == IF x = NaN \/ x = 0 THEN d ELSE x

\* ---- Number.isFinite(a) ----
IsFinite(a) == IsFin(a)

\* base^k for a natural k by repeated multiplication (square and multiply).
RECURSIVE PowInt(_, _)
PowInt(base, k) ==
  IF k = 0 THEN Num(1)
  ELSE IF k % 2 = 0
       THEN LET h == PowInt(base, k \div 2) IN FMul(h, h)
       ELSE FMul(base, PowInt(base, k - 1))

IsWhole(e) == IsFin(e) /\ e % Scale = 0
IsOddWhole(e) == IsWhole(e) /\ (e \div Scale) % 2 = 1

\* ---- Math.pow(base, e) (ECMAScript Number::exponentiate) ----
\* A finite base with a finite non-zero exponent: the engine only raises to
\* whole exponents in the modelled inputs; a negative base with a fractional
\* exponent is NaN as in JavaScript.  A negative whole exponent is the
\* reciprocal of the positive power; a positive power beyond FinMax has a
\* reciprocal below the resolution, which rounds to 0.
MathPow(base, e) ==
  CASE base = Ovf \/ e = Ovf -> Ovf
    [] e = NaN -> NaN
    [] e = 0 -> Num(1)
    [] base = NaN -> NaN
    [] base = PInf -> IF e > 0 THEN PInf ELSE 0
    [] base = NInf ->
         IF e > 0 THEN (IF IsOddWhole(e) THEN NInf ELSE PInf) ELSE 0
    [] base = 0 -> IF e > 0 THEN 0 ELSE PInf
    [] e = PInf ->
         IF Abs(base) > Scale THEN PInf
         ELSE IF Abs(base) = Scale THEN NaN ELSE 0
    [] e = NInf ->
         IF Abs(base) > Scale THEN 0
         ELSE IF Abs(base) = Scale THEN NaN ELSE PInf
    [] base < 0 /\ ~IsWhole(e) -> NaN
    [] IsWhole(e) /\ e > 0 -> PowInt(base, e \div Scale)
    [] IsWhole(e) /\ e < 0 ->
         IF Abs(base) >= Scale
         THEN LET p == PowInt(base, (-e) \div Scale)
              IN  IF p = Ovf THEN 0 ELSE FDiv(Num(1), p)
         ELSE PowInt(FDiv(Num(1), base), (-e) \div Scale)


\* n/d units as a number (exact when d divides n * Scale).
Dec(n, d) == (n * Scale) \div d

(***************************************************************************)
(* State.  The inputs are the useState values of lines 36-58; the rest is  *)
(* the local state of the useMemo body, one variable per local.            *)
(***************************************************************************)
VARIABLES
  years, rentMonthly, rentGrowthPct, homePrice, downPct, mortgageRatePct,
  amortYears, propertyTaxPct, maintenancePct, homeGrowthPct, sellingCostPct,
  investReturnPct, viewMode,
  monthlyMortgage,      \* const monthlyMortgage (lines 96-101)
  value,                \* let value (line 104)
  remainingBalance,     \* let remainingBalance (line 105)
  buyCashCum,           \* let buyCashCum (line 107)
  rentPaidCum,          \* let rentPaidCum (line 108)
  renterPortfolio,      \* let renterPortfolio (line 111)
  data,                 \* const data: Point[] (line 113)
  breakEvenWealthYear,  \* line 114
  breakEvenCostYear,    \* line 115
  y, m,                 \* the loop counters (lines 118, 122)
  rentPaidThisYear,     \* line 119
  buyCashThisYear,      \* line 120
  pc,                   \* position in the useMemo body
  results,              \* the value the useMemo body returns (lines 224-242)
  prevResults,          \* the value returned by the previous evaluation
  yearEnds              \* history: the unrounded year-end values of each year

inputs ==
  <<years, rentMonthly, rentGrowthPct, homePrice, downPct, mortgageRatePct,
    amortYears, propertyTaxPct, maintenancePct, homeGrowthPct, sellingCostPct,
    investReturnPct>>

loopVars ==
  <<monthlyMortgage, value, remainingBalance, buyCashCum, rentPaidCum,
    renterPortfolio, data, breakEvenWealthYear, breakEvenCostYear, y, m,
    rentPaidThisYear, buyCashThisYear, yearEnds>>

vars == <<inputs, viewMode, loopVars, pc, results, prevResults>>

\* null of `number | null` (lines 114-115); a year is never 0.
Null == 0
\* The horizon cap and the months of a year.
MaxHorizon == 50
MonthsPerYear == 12

(***************************************************************************)
(* The constants the useMemo body derives from the inputs (lines 76-101).  *)
(***************************************************************************)
\* yMax with Math.round in place of Math.floor.
yMaxRounded ==
  MathMax(Num(1), MathMin(Num(MaxHorizon), MathRound(OrElse(years, Num(1)))))
\* line 76
yMax ==
  MathMax(Num(1), MathMin(Num(MaxHorizon), MathFloor(OrElse(years, Num(1)))))
\* The loop bound as a count of years.
Horizon == yMax \div Scale

Pct(x) == FDiv(OrElse(x, 0), Num(100))
rentGrowth == Pct(rentGrowthPct)
homeGrowth == Pct(homeGrowthPct)
mortgageRate == Pct(mortgageRatePct)
propTax == Pct(propertyTaxPct)
maint == Pct(maintenancePct)
sellCost == Pct(sellingCostPct)
investReturn == Pct(investReturnPct)
investMonthly == FDiv(investReturn, Num(MonthsPerYear))

price == OrElse(homePrice, 0)
downPayment == FMul(FDiv(OrElse(downPct, 0), Num(100)), price)
loan == MathMax(0, FSub(price, downPayment))

\* line 94
r == FDiv(mortgageRate, Num(MonthsPerYear))
\* line 95
n == MathMax(Num(1), FMul(OrElse(amortYears, Num(1)), Num(MonthsPerYear)))
\* The annuity formula's denominator 1 - (1+r)^(-n) (line 101).
Denominator == FSub(Num(1), MathPow(FAdd(Num(1), r), FNeg(n)))

\* lines 96-101
MonthlyMortgage ==
  IF FEq(loan, 0) THEN 0
  ELSE IF FEq(r, 0) THEN FDiv(loan, n)
  ELSE FDiv(FMul(loan, r), Denominator)

(***************************************************************************)
(* The statements of the monthly loop body (lines 122-150).                *)
(***************************************************************************)
\* lines 124-125
RentThisMonth(yr) ==
  FMul(OrElse(rentMonthly, 0), MathPow(FAdd(Num(1), rentGrowth), Num(yr - 1)))
\* line 128
PropTaxThisMonth(val) == FDiv(FMul(val, propTax), Num(MonthsPerYear))
\* line 129
MaintThisMonth(val) == FDiv(FMul(val, maint), Num(MonthsPerYear))
\* line 132
InterestThisMonth(bal) == FMul(bal, FDiv(mortgageRate, Num(MonthsPerYear)))
\* lines 133-136
PrincipalThisMonth(pay, bal) == MathMax(0, FSub(pay, InterestThisMonth(bal)))
\* line 137
NextBalance(pay, bal) == MathMax(0, FSub(bal, PrincipalThisMonth(pay, bal)))
\* line 139
BuyThisMonth(pay, val) ==
  FAdd(FAdd(pay, PropTaxThisMonth(val)), MaintThisMonth(val))
\* line 145
InvestContribution(pay, val, yr) ==
  FSub(BuyThisMonth(pay, val), RentThisMonth(yr))
\* lines 148-149
NextPortfolio(pf, pay, val, yr) ==
  FAdd(FMul(pf, FAdd(Num(1), investMonthly)), InvestContribution(pay, val, yr))

(***************************************************************************)
(* The year-end statements (lines 152-182).                                *)
(***************************************************************************)
\* line 152
NextRentPaidCum(cum, thisYear) == FAdd(cum, thisYear)
\* line 153
NextBuyCashCum(cum, thisYear) == FAdd(cum, thisYear)
\* line 156
GrownValue(val) == FMul(val, FAdd(Num(1), homeGrowth))
\* line 159
NetSaleProceeds(val, bal) == FSub(FMul(val, FSub(Num(1), sellCost)), bal)
\* line 160
Equity(val, bal) == MathMax(0, NetSaleProceeds(val, bal))
\* line 163
RentNetCost(paid, pf) == FSub(paid, pf)
\* line 164
NetBuyCost(cash, eq) == FSub(cash, eq)
\* lines 166-175: the Point pushed for year yr
Point(yr, paid, pf, cash, eq) ==
  [year |-> yr,
   rentPaidCum |-> MathRound(paid),
   renterPortfolio |-> MathRound(pf),
   rentNetCost |-> MathRound(RentNetCost(paid, pf)),
   buyCashCum |-> MathRound(cash),
   equity |-> MathRound(eq),
   netBuyCost |-> MathRound(NetBuyCost(cash, eq))]
\* The wealth breakeven without the `=== null` test: the latest year wins.
NextBreakEvenWealthYearLatest(cur, yr, eq, pf) == IF FGt(eq, pf) THEN yr ELSE cur
\* lines 177-179
NextBreakEvenWealthYear(cur, yr, eq, pf) ==
  IF cur = Null /\ FGt(eq, pf) THEN yr ELSE cur
\* The comparison of line 180 the other way round.
NextBreakEvenCostYearReversed(cur, yr, buyNet, rentNet) ==
  IF cur = Null /\ FGt(buyNet, rentNet) THEN yr ELSE cur
\* lines 180-182
NextBreakEvenCostYear(cur, yr, buyNet, rentNet) ==
  IF cur = Null /\ FLt(buyNet, rentNet) THEN yr ELSE cur

(***************************************************************************)
(* The summary (lines 185-242).                                            *)
(***************************************************************************)
\* money(n) (lines 29-32): the number that is formatted, 0 if not finite.
Money(x) == IF IsFinite(x) THEN x ELSE 0
\* Math.abs
MathAbs(x) == IF x = NaN \/ x = Ovf THEN x ELSE IF x = NInf THEN PInf ELSE Abs(x)

\* lines 196-201: the sentence is modelled by the values it is built from.
WealthVerdict(diff) ==
  IF FGt(diff, 0)
  THEN [view |-> "wealth", richer |-> "buying", by |-> Money(diff), years |-> Horizon]
  ELSE [view |-> "wealth", richer |-> "renting", by |-> Money(MathAbs(diff)),
        years |-> Horizon]
\* lines 203-208
CostVerdict(diff) ==
  IF FGt(diff, 0)
  THEN [view |-> "cost", richer |-> "buying", by |-> Money(diff), years |-> Horizon]
  ELSE [view |-> "cost", richer |-> "renting", by |-> Money(MathAbs(diff)),
        years |-> Horizon]
\* lines 210-218
BreakevenText(view, yr) == [view |-> view, year |-> yr, years |-> Horizon]

\* The body with the view's breakeven year returned in breakEvenWealthYear.
ResultsByView(d, beW, beC, vm) ==
  LET last == d[Len(d)]
  IN  [data |-> d,
       monthlyMortgage |-> MathRound(monthlyMortgage),
       downPayment |-> MathRound(downPayment),
       breakEvenWealthYear |-> IF vm = "wealth" THEN beW ELSE beC,
       breakEvenCostYear |-> beC,
       finalRenterWealth |-> last.renterPortfolio,
       finalBuyerWealth |-> last.equity,
       finalWealthDiff |-> FSub(last.equity, last.renterPortfolio),
       finalRentNetCost |-> last.rentNetCost,
       finalBuyNetCost |-> last.netBuyCost,
       finalCostDiff |-> FSub(last.rentNetCost, last.netBuyCost),
       verdict |-> IF vm = "wealth"
                   THEN WealthVerdict(FSub(last.equity, last.renterPortfolio))
                   ELSE CostVerdict(FSub(last.rentNetCost, last.netBuyCost)),
       breakevenText |-> IF vm = "wealth" THEN BreakevenText("wealth", beW)
                         ELSE BreakevenText("cost", beC)]
\* lines 185-242
Results(d, beW, beC, vm) ==
  LET hasLast == Len(d) > 0
      last == d[Len(d)]
      finalRenterWealth == IF hasLast THEN last.renterPortfolio ELSE 0
      finalBuyerWealth == IF hasLast THEN last.equity ELSE 0
      finalWealthDiff == FSub(finalBuyerWealth, finalRenterWealth)
      finalRentNetCost == IF hasLast THEN last.rentNetCost ELSE 0
      finalBuyNetCost == IF hasLast THEN last.netBuyCost ELSE 0
      finalCostDiff == FSub(finalRentNetCost, finalBuyNetCost)
  IN  [data |-> d,
       monthlyMortgage |-> MathRound(monthlyMortgage),
       downPayment |-> MathRound(downPayment),
       breakEvenWealthYear |-> beW,
       breakEvenCostYear |-> beC,
       finalRenterWealth |-> finalRenterWealth,
       finalBuyerWealth |-> finalBuyerWealth,
       finalWealthDiff |-> finalWealthDiff,
       finalRentNetCost |-> finalRentNetCost,
       finalBuyNetCost |-> finalBuyNetCost,
       finalCostDiff |-> finalCostDiff,
       verdict |-> IF vm = "wealth" THEN WealthVerdict(finalWealthDiff)
                   ELSE CostVerdict(finalCostDiff),
       breakevenText |-> IF vm = "wealth" THEN BreakevenText("wealth", beW)
                         ELSE BreakevenText("cost", beC)]

\* No value returned yet.
NoResults == [data |-> <<>>]

(***************************************************************************)
(* The assumption sets the runs are checked for.  Amounts are in thousands *)
(* (the default home price of 600000 is 600 units).                        *)
(***************************************************************************)
\* Longest horizon of the mortgage and cash-flow sweeps, in years.
SweepYears == 3
\* Home price of the sweeps, in units.
SweepPrice == 100

\* Every shape of the years input: missing, infinite, negative, zero,
\* fractional, whole, and beyond the cap.
YearsInputs ==
  {NaN, PInf, NInf, Num(-3), 0, Dec(1, 2), Num(1), Dec(5, 2), Num(3), Num(20),
   Num(MaxHorizon + 1)}
\* Annual mortgage rates in percent: r = 0, 0.01, -1, -2, -3 per month.
MortgageRates == {0, Num(12), Num(-1200), Num(-2400), Num(-3600)}
\* Amortization terms in years: n = 12, 24, 300, 6, 3, and the falsy, the
\* negative and the infinite ones.
AmortTerms ==
  {Num(1), Num(2), Num(25), Dec(1, 2), Dec(1, 4), 0, Num(-5), NaN, PInf}
\* A rate and a term whose (1+r)^(-n) = 2^(-60) is below the resolution of 1,
\* in doubles as in the model.
HighRatePct == 1200
HighRateTerm == 5

\* The useState defaults of lines 36-55 with the years input swept.
HorizonSweep ==
  /\ years \in YearsInputs
  /\ rentMonthly = Dec(5, 2)
  /\ rentGrowthPct = Num(3)
  /\ homePrice = Num(600)
  /\ downPct = Num(20)
  /\ mortgageRatePct = Num(5)
  /\ amortYears = Num(25)
  /\ propertyTaxPct = Num(1)
  /\ maintenancePct = Num(1)
  /\ homeGrowthPct = Num(3)
  /\ sellingCostPct = Num(5)
  /\ investReturnPct = Num(6)

\* The mortgage inputs swept.
MortgageSweep ==
  /\ years \in {Num(k) : k \in 1..SweepYears}
  /\ rentMonthly = Num(1)
  /\ rentGrowthPct = 0
  /\ homePrice = Num(SweepPrice)
  /\ downPct \in {0, Num(20)}
  /\ mortgageRatePct \in MortgageRates
  /\ amortYears \in AmortTerms
  /\ propertyTaxPct = 0
  /\ maintenancePct = 0
  /\ homeGrowthPct = 0
  /\ sellingCostPct = Num(5)
  /\ investReturnPct = 0

\* The rent, price, owning-cost, growth and return inputs swept.
CashFlowSweep ==
  /\ years \in {Num(k) : k \in 1..SweepYears}
  /\ rentMonthly \in {Num(-1), 0, Num(3)}
  /\ rentGrowthPct \in {0, Num(10)}
  /\ homePrice \in {0, Num(SweepPrice)}
  /\ downPct = Num(20)
  /\ mortgageRatePct = Num(12)
  /\ amortYears = Num(2)
  /\ \/ propertyTaxPct = 0 /\ maintenancePct = 0
     \/ propertyTaxPct = Dec(12, 10) /\ maintenancePct = Dec(24, 10)
  /\ homeGrowthPct \in {Num(-50), 0, Num(10)}
  /\ sellingCostPct = Num(5)
  /\ investReturnPct \in {0, Num(12)}

\* A loan at the high rate, simulated to the end of its term.
HighRateLoan ==
  /\ years = Num(HighRateTerm)
  /\ rentMonthly = Num(1)
  /\ rentGrowthPct = 0
  /\ homePrice = Num(SweepPrice)
  /\ downPct = 0
  /\ mortgageRatePct = Num(HighRatePct)
  /\ amortYears = Num(HighRateTerm)
  /\ propertyTaxPct = 0
  /\ maintenancePct = 0
  /\ homeGrowthPct = 0
  /\ sellingCostPct = Num(5)
  /\ investReturnPct = 0

\* The non-finite values a number assumption can hold (the engine takes any
\* number; Field shows a non-finite one as 0, line 680).
NonFiniteValues == {NaN, PInf, NInf}
\* One of the ten assumptions other than the horizon and the term is missing
\* or non-finite, the others are plain.
NonFiniteSweep ==
  /\ years = Num(2)
  /\ amortYears = Num(2)
  /\ \E k \in 1..10 : \E v \in NonFiniteValues :
       /\ rentMonthly = IF k = 1 THEN v ELSE Num(1)
       /\ rentGrowthPct = IF k = 2 THEN v ELSE Num(10)
       /\ homePrice = IF k = 3 THEN v ELSE Num(SweepPrice)
       /\ downPct \in IF k = 4 THEN {v} ELSE {Num(20), Num(100)}
       /\ mortgageRatePct = IF k = 5 THEN v ELSE Num(12)
       /\ propertyTaxPct = IF k = 6 THEN v ELSE Dec(12, 10)
       /\ maintenancePct = IF k = 7 THEN v ELSE Dec(24, 10)
       /\ homeGrowthPct = IF k = 8 THEN v ELSE Num(10)
       /\ sellingCostPct = IF k = 9 THEN v ELSE Num(5)
       /\ investReturnPct = IF k = 10 THEN v ELSE Num(12)

Assumptions ==
  HorizonSweep \/ MortgageSweep \/ CashFlowSweep \/ HighRateLoan \/ NonFiniteSweep

(***************************************************************************)
(* The state machine.                                                      *)
(***************************************************************************)
\* The component is mounted with its assumptions; nothing is computed yet.
Init ==
  /\ Assumptions
  /\ viewMode = "wealth"
  /\ monthlyMortgage = 0
  /\ value = 0
  /\ remainingBalance = 0
  /\ buyCashCum = 0
  /\ rentPaidCum = 0
  /\ renterPortfolio = 0
  /\ data = <<>>
  /\ breakEvenWealthYear = Null
  /\ breakEvenCostYear = Null
  /\ y = 1
  /\ m = 1
  /\ rentPaidThisYear = 0
  /\ buyCashThisYear = 0
  /\ pc = "start"
  /\ results = NoResults
  /\ prevResults = NoResults
  /\ yearEnds = <<>>

\* The useMemo body is entered: lines 76-120, up to the first month (yMax is
\* at least 1, so the loop of line 118 is always entered).
Start ==
  /\ pc = "start"
  /\ monthlyMortgage' = MonthlyMortgage
  /\ value' = price
  /\ remainingBalance' = loan
  /\ buyCashCum' = downPayment
  /\ rentPaidCum' = 0
  /\ renterPortfolio' = downPayment
  /\ data' = <<>>
  /\ breakEvenWealthYear' = Null
  /\ breakEvenCostYear' = Null
  /\ y' = 1
  /\ m' = 1
  /\ rentPaidThisYear' = 0
  /\ buyCashThisYear' = 0
  /\ yearEnds' = <<>>
  /\ pc' = "month"
  /\ UNCHANGED <<inputs, viewMode, results, prevResults>>

\* One iteration of the monthly loop (lines 122-150).
MonthStep ==
  /\ pc = "month"
  /\ remainingBalance' = NextBalance(monthlyMortgage, remainingBalance)
  /\ rentPaidThisYear' = FAdd(rentPaidThisYear, RentThisMonth(y))
  /\ buyCashThisYear' = FAdd(buyCashThisYear, BuyThisMonth(monthlyMortgage, value))
  /\ renterPortfolio' = NextPortfolio(renterPortfolio, monthlyMortgage, value, y)
  /\ m' = m + 1
  /\ pc' = IF m < MonthsPerYear THEN "month" ELSE "yearEnd"
  /\ UNCHANGED <<inputs, viewMode, monthlyMortgage, value, buyCashCum,
                 rentPaidCum, data, breakEvenWealthYear, breakEvenCostYear, y,
                 results, prevResults, yearEnds>>

\* The rest of the yearly loop body (lines 152-182) and the loop test of
\* line 118 for the next year.
YearEnd ==
  /\ pc = "yearEnd"
  /\ LET paid == NextRentPaidCum(rentPaidCum, rentPaidThisYear)
         cash == NextBuyCashCum(buyCashCum, buyCashThisYear)
         val == GrownValue(value)
         eq == Equity(val, remainingBalance)
     IN  /\ rentPaidCum' = paid
         /\ buyCashCum' = cash
         /\ value' = val
         /\ data' = Append(data, Point(y, paid, renterPortfolio, cash, eq))
         /\ breakEvenWealthYear' =
              NextBreakEvenWealthYear(breakEvenWealthYear, y, eq, renterPortfolio)
         /\ breakEvenCostYear' =
              NextBreakEvenCostYear(breakEvenCostYear, y, NetBuyCost(cash, eq),
                                    RentNetCost(paid, renterPortfolio))
         /\ yearEnds' = Append(yearEnds,
              [equity |-> eq, renterPortfolio |-> renterPortfolio,
               rentNetCost |-> RentNetCost(paid, renterPortfolio),
               netBuyCost |-> NetBuyCost(cash, eq),
               rentPaidCum |-> paid, buyCashCum |-> cash])
  /\ y' = y + 1
  /\ m' = 1
  /\ rentPaidThisYear' = 0
  /\ buyCashThisYear' = 0
  /\ pc' = IF y + 1 <= Horizon THEN "month" ELSE "summary"
  /\ UNCHANGED <<inputs, viewMode, monthlyMortgage, remainingBalance,
                 renterPortfolio, results, prevResults>>

\* The summary and the return (lines 185-242).
Summary ==
  /\ pc = "summary"
  /\ results' = Results(data, breakEvenWealthYear, breakEvenCostYear, viewMode)
  /\ pc' = "done"
  /\ UNCHANGED <<inputs, viewMode, loopVars, prevResults>>

\* The view toggle (lines 450, 461): viewMode is a dependency of the useMemo
\* (line 256), so the body is evaluated again with the same assumptions; the
\* value of the previous evaluation is kept for comparison.
SetViewMode(v) ==
  /\ pc = "done"
  /\ v # viewMode
  /\ viewMode' = v
  /\ prevResults' = results
  /\ results' = NoResults
  /\ pc' = "start"
  /\ UNCHANGED <<inputs, loopVars>>

Next ==
  \/ Start
  \/ MonthStep
  \/ YearEnd
  \/ Summary
  \/ \E v \in {"wealth", "cost"} : SetViewMode(v)

Spec == Init /\ [][Next]_vars

\* Every number of the state is NaN, +-Infinity or inside the modelled range.
IsNumber(x) == x = NaN \/ x = PInf \/ x = NInf \/ IsFin(x)
RangeOK ==
  /\ \A x \in {monthlyMortgage, value, remainingBalance, buyCashCum, rentPaidCum,
               renterPortfolio, rentPaidThisYear, buyCashThisYear} : IsNumber(x)
  /\ \A i \in 1..Len(yearEnds) :
       /\ IsNumber(yearEnds[i].rentNetCost)
       /\ IsNumber(yearEnds[i].netBuyCost)
       /\ IsNumber(yearEnds[i].equity)

(***************************************************************************)
(* Properties.                                                             *)
(***************************************************************************)
\* The body has run to its return.
Returned == pc = "done"
\* Monthly payments applied to the balance so far in this evaluation.
PaymentsMade == (y - 1) * MonthsPerYear + (m - 1)
\* Every assumption other than the horizon is a finite number >= 0.
NonNegativeAssumptions ==
  \A x \in {rentMonthly, rentGrowthPct, homePrice, downPct, mortgageRatePct,
            amortYears, propertyTaxPct, maintenancePct, homeGrowthPct,
            sellingCostPct, investReturnPct} : IsFin(x) /\ x >= 0
IntMax(a, b) == IF a >= b THEN a ELSE b
IntMin(a, b) == IF a <= b THEN a ELSE b

\* C1: the engine emits exactly H records, H = min(50, max(1, floor(years)))
\* (1 when years is missing or NaN), and the i-th record is that of year i:
\* one record per year 1..H, in order, without gaps or duplicates.
ClaimedHorizon ==
  CASE years = NaN -> 1
    [] years = PInf -> MaxHorizon
    [] years = NInf -> 1
    [] OTHER -> IntMin(MaxHorizon, IntMax(1, years \div Scale))
C1_OneRecordPerYear ==
  /\ \A i \in 1..Len(data) : data[i].year = i
  /\ pc \in {"month", "yearEnd"} => Len(data) = y - 1 /\ y <= ClaimedHorizon
  /\ pc = "summary" => Len(data) = ClaimedHorizon
  /\ Returned => /\ Len(results.data) = ClaimedHorizon
                 /\ \A i \in 1..ClaimedHorizon : results.data[i].year = i
\* An infinite years input has been capped to 50 records.
C1_Witness ==
  Returned /\ years = PInf /\ Len(results.data) = MaxHorizon

\* C2: the equity of every record and the returned monthly mortgage payment
\* are never negative, whatever the inputs.
C2_NeverNegative ==
  Returned =>
    /\ ~FLt(results.monthlyMortgage, 0)
    /\ \A i \in 1..Len(results.data) : ~FLt(results.data[i].equity, 0)

\* C3: in every record of a run whose assumptions are all non-negative,
\* rentPaidCum, renterPortfolio, buyCashCum and equity are non-negative, also
\* when rent exceeds the owner's monthly outflow.
C3_AllNonNegative ==
  NonNegativeAssumptions =>
    \A i \in 1..Len(data) :
      /\ FGe(data[i].rentPaidCum, 0)
      /\ FGe(data[i].renterPortfolio, 0)
      /\ FGe(data[i].buyCashCum, 0)
      /\ FGe(data[i].equity, 0)
\* The three other fields are non-negative in those runs: the failure is
\* confined to the renter portfolio, the one field without a floor.
CashAndEquityNonNegative ==
  NonNegativeAssumptions =>
    \A i \in 1..Len(data) :
      /\ FGe(data[i].rentPaidCum, 0)
      /\ FGe(data[i].buyCashCum, 0)
      /\ FGe(data[i].equity, 0)
\* Rent above the owner's outflow has driven the emitted portfolio below 0
\* while the equity floor held the emitted equity at 0.
PortfolioBelowZero ==
  /\ NonNegativeAssumptions
  /\ \E i \in 1..Len(data) :
       FLt(data[i].renterPortfolio, 0) /\ FGt(data[i].rentPaidCum, 0)
  /\ \E i \in 1..Len(data) : data[i].equity = 0 /\ FGt(data[i].buyCashCum, 0)

\* C4: for every assumption set, buyCashCum and rentPaidCum are
\* non-decreasing from each record to the next.
C4_Monotone ==
  \A i \in 1..(Len(data) - 1) :
    /\ FGe(data[i + 1].buyCashCum, data[i].buyCashCum)
    /\ FGe(data[i + 1].rentPaidCum, data[i].rentPaidCum)
\* The same holds of every assumption set whose values are all non-negative:
\* the failure is confined to the negative inputs the engine lets through.
MonotoneNonNegative == NonNegativeAssumptions => C4_Monotone
\* Two consecutive records of a non-negative run in which both totals grew.
BothTotalsGrew ==
  /\ NonNegativeAssumptions
  /\ \E i \in 1..(Len(data) - 1) :
       /\ FGt(data[i + 1].buyCashCum, data[i].buyCashCum)
       /\ FGt(data[i + 1].rentPaidCum, data[i].rentPaidCum)

\* The least year of a set of years, Null if the set is empty.
FirstOf(S) == IF S = {} THEN Null ELSE CHOOSE i \in S : \A j \in S : i <= j
WealthAhead(i) == FGt(yearEnds[i].equity, yearEnds[i].renterPortfolio)
CostAhead(i) == FLt(yearEnds[i].netBuyCost, yearEnds[i].rentNetCost)
\* The years so far at whose end buying is ahead, by wealth and by cost.
WealthAheadYears == {i \in 1..Len(yearEnds) : WealthAhead(i)}
CostAheadYears == {i \in 1..Len(yearEnds) : CostAhead(i)}
\* C5: the wealth breakeven year is the first year whose year-end equity
\* exceeds the renter portfolio, the cost breakeven year the first year whose
\* year-end net buy cost is below the rent net cost, each null exactly when
\* there is no such year; a later year never changes a year once set.
C5_FirstOccurrence ==
  /\ pc # "start" =>
       /\ breakEvenWealthYear = FirstOf(WealthAheadYears)
       /\ breakEvenCostYear = FirstOf(CostAheadYears)
  /\ Returned =>
       /\ results.breakEvenWealthYear = FirstOf(WealthAheadYears)
       /\ results.breakEvenCostYear = FirstOf(CostAheadYears)
\* The wealth ordering reversed after the breakeven year, and the year
\* returned is still the first one.
C5_Witness ==
  /\ Returned
  /\ results.breakEvenWealthYear # Null
  /\ \E i \in 1..Len(yearEnds) :
       results.breakEvenWealthYear < i /\ ~WealthAhead(i)

\* C6: two evaluations whose assumptions differ at most in viewMode return
\* the same records, payment, down payment, breakeven years and final
\* differences; only verdict and breakevenText may differ.
C6_ViewIndependent ==
  Returned /\ prevResults # NoResults =>
    /\ results.data = prevResults.data
    /\ results.monthlyMortgage = prevResults.monthlyMortgage
    /\ results.downPayment = prevResults.downPayment
    /\ results.breakEvenWealthYear = prevResults.breakEvenWealthYear
    /\ results.breakEvenCostYear = prevResults.breakEvenCostYear
    /\ results.finalWealthDiff = prevResults.finalWealthDiff
    /\ results.finalCostDiff = prevResults.finalCostDiff
\* The view was toggled, the body ran again, and the two views report
\* different breakeven years of the same records.
C6_Witness ==
  /\ Returned
  /\ prevResults # NoResults
  /\ results.verdict # prevResults.verdict
  /\ results.breakevenText.year # prevResults.breakevenText.year
  /\ Len(results.data) > 1

\* C7: in every emitted record whose fields are finite, rentNetCost equals
\* rentPaidCum - renterPortfolio and netBuyCost equals buyCashCum - equity,
\* exactly, on the emitted (rounded) fields.
C7_NetCostIdentity ==
  \A i \in 1..Len(data) :
    (\A f \in {"rentPaidCum", "renterPortfolio", "rentNetCost", "buyCashCum",
               "equity", "netBuyCost"} : IsFin(data[i][f])) =>
      /\ data[i].rentNetCost = data[i].rentPaidCum - data[i].renterPortfolio
      /\ data[i].netBuyCost = data[i].buyCashCum - data[i].equity

\* The cases of C8: a loan, a rate >= 0 and a term of N >= 1 whole years.
AmortizingLoan ==
  /\ IsFin(loan) /\ FGt(loan, 0)
  /\ IsFin(mortgageRatePct) /\ mortgageRatePct >= 0
  /\ IsWhole(amortYears) /\ amortYears >= Num(1)
TermMonths == (amortYears \div Scale) * MonthsPerYear
\* C8: for a loan P > 0, a rate R >= 0 and a term of N >= 1 years, the
\* monthly balance update with the computed payment leaves a positive balance
\* after each of the first 12N - 1 payments and a balance of 0 (to the
\* nearest whole unit) after payment 12N.
C8_RetiresInTerm ==
  pc \in {"month", "yearEnd", "summary"} /\ AmortizingLoan =>
    /\ PaymentsMade < TermMonths => FGt(remainingBalance, 0)
    /\ PaymentsMade >= TermMonths => MathRound(remainingBalance) = 0
\* The same for the rates of everyday loans (below the high rate), where the
\* property holds: the failure of C8 is confined to the high rate.
RetiresInTermModerateRate ==
  mortgageRatePct < Num(HighRatePct) => C8_RetiresInTerm

\* 12 * max(1, N) for the term input N, a missing or non-finite N counting 1.
ClaimedPayments ==
  IF IsFin(amortYears) THEN FMul(Num(MonthsPerYear), MathMax(Num(1), amortYears))
  ELSE Num(MonthsPerYear)
\* C9: the number of payments is n = 12 * max(1, N) for every term input N,
\* never fewer than 12, and with rate 0 and a loan P > 0 the payment is
\* P / (12 * max(1, N)).
C9_TermAtLeastOneYear ==
  pc # "start" =>
    /\ n = ClaimedPayments
    /\ FGe(n, Num(MonthsPerYear))
    /\ FGt(loan, 0) /\ FEq(r, 0) => monthlyMortgage = FDiv(loan, ClaimedPayments)

\* C10: the payment is finite for every loan, rate and term, and the
\* denominator 1 - (1+r)^(-n) is not zero whenever the annuity formula is
\* evaluated (loan and rate non-zero).
C10_Total ==
  pc # "start" =>
    /\ IsFinite(monthlyMortgage)
    /\ ~FEq(loan, 0) /\ ~FEq(r, 0) => Denominator # 0

\* The value the simulation is said to use for an assumption: 0 when the
\* assumption is missing or non-finite.
Coerced(x) == IF IsFin(x) THEN x ELSE 0
\* One of the ten assumptions other than the horizon and the term is missing
\* or non-finite.
SomeNonFinite ==
  \E x \in {rentMonthly, rentGrowthPct, homePrice, downPct, mortgageRatePct,
            propertyTaxPct, maintenancePct, homeGrowthPct, sellingCostPct,
            investReturnPct} : ~IsFin(x)
RecordFields ==
  {"rentPaidCum", "renterPortfolio", "rentNetCost", "buyCashCum", "equity",
   "netBuyCost"}
\* C11: each of the ten assumptions other than the horizon and the term that
\* is missing or non-finite (NaN, +Infinity, -Infinity) is used by the
\* simulation as 0 (the rate is 0 / 100, the price 0, the first rent 0), so
\* that every field of every record and every summary number of such a run is
\* finite.
C11_NonFiniteAsZero ==
  /\ pc # "start" =>
       /\ RentThisMonth(1) = Coerced(rentMonthly)
       /\ rentGrowth = FDiv(Coerced(rentGrowthPct), Num(100))
       /\ price = Coerced(homePrice)
       /\ downPayment = FMul(FDiv(Coerced(downPct), Num(100)), price)
       /\ mortgageRate = FDiv(Coerced(mortgageRatePct), Num(100))
       /\ propTax = FDiv(Coerced(propertyTaxPct), Num(100))
       /\ maint = FDiv(Coerced(maintenancePct), Num(100))
       /\ homeGrowth = FDiv(Coerced(homeGrowthPct), Num(100))
       /\ sellCost = FDiv(Coerced(sellingCostPct), Num(100))
       /\ investReturn = FDiv(Coerced(investReturnPct), Num(100))
  /\ Returned /\ SomeNonFinite =>
       /\ \A i \in 1..Len(results.data) :
            \A f \in RecordFields : IsFin(results.data[i][f])
       /\ IsFin(results.monthlyMortgage)
       /\ IsFin(results.downPayment)
       /\ IsFin(results.finalWealthDiff)
       /\ IsFin(results.finalCostDiff)
\* The part of C11 that holds: a NaN assumption is used as 0 and the run it
\* belongs to returns finite numbers only.
SomeNaN ==
  \E x \in {rentMonthly, rentGrowthPct, homePrice, downPct, mortgageRatePct,
            propertyTaxPct, maintenancePct, homeGrowthPct, sellingCostPct,
            investReturnPct} : x = NaN
NaNAsZero ==
  Returned /\ SomeNaN =>
    /\ \A i \in 1..Len(results.data) :
         \A f \in RecordFields : IsFin(results.data[i][f])
    /\ IsFin(results.monthlyMortgage)
    /\ IsFin(results.finalWealthDiff)
    /\ IsFin(results.finalCostDiff)

\* The mortgage part of the owner's outflow of the month a MonthStep charges:
\* what the step adds to buyCashThisYear less property tax and maintenance.
MortgageCharged ==
  FSub(FSub(FSub(buyCashThisYear', buyCashThisYear), PropTaxThisMonth(value)),
       MaintThisMonth(value))
\* The month's step of a run whose payment and balance are finite.
FiniteMonth ==
  /\ pc = "month" /\ pc' \in {"month", "yearEnd"}
  /\ IsFin(monthlyMortgage) /\ IsFin(remainingBalance)
  /\ IsFin(buyCashThisYear) /\ IsFin(buyCashThisYear')
  /\ IsFin(PropTaxThisMonth(value)) /\ IsFin(MaintThisMonth(value))
\* The payment less the remaining balance and the month's interest.
Excess ==
  FSub(monthlyMortgage,
       FAdd(remainingBalance, InterestThisMonth(remainingBalance)))
\* C12: in a month whose payment exceeds the remaining balance plus the
\* month's interest the owner is charged only the interest plus the principal
\* applied to the balance, and in a month that starts with a balance of 0 the
\* mortgage part of the outflow is 0. The first part is stated of the months
\* whose excess is a whole unit or more, which no rounding of the payment
\* produces.
C12_ExcessNotCharged ==
  [][FiniteMonth =>
       /\ FGe(Excess, Num(1)) =>
            MortgageCharged = FAdd(InterestThisMonth(remainingBalance),
                                   FSub(remainingBalance, remainingBalance'))
       /\ remainingBalance = 0 /\ FGt(monthlyMortgage, 0) =>
            MortgageCharged = 0]_vars
\* The code's charge: the full payment in every month, the retired loan's
\* months included.
FullPaymentCharged ==
  [][FiniteMonth => MortgageCharged = monthlyMortgage]_vars

\* max(0, price - downPayment), the loan amount of C13.
ClaimedLoan ==
  LET d == FSub(price, downPayment)
  IN  IF d = NaN THEN NaN ELSE IF FGt(d, 0) THEN d ELSE 0
\* C13: the remaining balance starts at the loan amount max(0, price -
\* downPayment); within a run it never increases from one month to the next,
\* never goes below 0, is never reset, and once it is 0 it stays 0.
C13_BalanceNeverIncreases ==
  [][/\ pc = "start" => remainingBalance' = ClaimedLoan
     /\ pc # "start" /\ pc' # "start" =>
          /\ ~FGt(remainingBalance', remainingBalance)
          /\ ~FLt(remainingBalance', 0)
          /\ remainingBalance = 0 => remainingBalance' = 0]_vars
\* The same holds of every run whose mortgage rate, term, price and down
\* payment are finite, with the balance a number that does not increase: the
\* failure is confined to the infinite inputs.
FiniteLoanInputs ==
  /\ IsFin(mortgageRatePct) /\ IsFin(amortYears)
  /\ IsFin(homePrice) /\ IsFin(downPct)
BalanceNeverIncreasesFinite ==
  [][FiniteLoanInputs =>
       /\ pc = "start" => remainingBalance' = ClaimedLoan
       /\ pc # "start" /\ pc' # "start" =>
            /\ FLe(remainingBalance', remainingBalance)
            /\ FGe(remainingBalance', 0)
            /\ remainingBalance = 0 => remainingBalance' = 0]_vars

\* C14: the verdict and the breakeven report of a returned value agree: a
\* final wealth difference above 0 (from the rounded last record) comes with
\* a wealth breakeven year between 1 and the horizon, a final cost difference
\* above 0 with a cost breakeven year between 1 and the horizon, and the text
\* of a view whose verdict favours buying names a breakeven year.
C14_VerdictMatchesBreakeven ==
  Returned =>
    /\ FGt(results.finalWealthDiff, 0) =>
         /\ results.breakEvenWealthYear # Null
         /\ results.breakEvenWealthYear \in 1..ClaimedHorizon
    /\ FGt(results.finalCostDiff, 0) =>
         /\ results.breakEvenCostYear # Null
         /\ results.breakEvenCostYear \in 1..ClaimedHorizon
    /\ results.verdict.richer = "buying" => results.breakevenText.year # Null
\* Buying got ahead by wealth in the last of several years only: the verdict
\* favours buying and the breakeven year reported is that last year.
C14_Witness ==
  /\ Returned
  /\ FGt(results.finalWealthDiff, 0)
  /\ results.breakEvenWealthYear = Len(results.data)
  /\ Len(results.data) > 1
  /\ results.verdict.richer = "buying"

=============================================================================
